---------------------------- MODULE Spec2Model ----------------------------
(***************************************************************************)
(* Chartonics: the pipeline of server/main.py that compiles a Drawflow     *)
(* document (a graph of state, decision and event nodes) into VHDL.        *)
(*                                                                         *)
(* A document is drawn in Init; one action per pipeline stage of           *)
(* save_drawflow_data applies the stage's function to the values the       *)
(* earlier stages left.                                                    *)
(*                                                                         *)
(* Representation.                                                         *)
(*   - A node id is an integer; str(id), the key of a node map and the     *)
(*     element of an id-path, is the string Str(id).                       *)
(*   - A text blob is the sequence of its lines; the names are plain       *)
(*     identifiers (no blank, comma or colon, which sympy.symbols would    *)
(*     split).                                                             *)
(*   - A sympy symbol is its name: the state-bit symbol Y<i> is the string *)
(*     "Y<i>", the symbol of an input or output is its text.               *)
(*   - A Boolean expression built by Or(false, And(true, literal, ...))    *)
(*     is a set of terms, a term a set of literals <<name, polarity>>:     *)
(*     sympy's And and Or flatten and drop repeated arguments.             *)
(*   - Python's None is the string "None"; the Booleans True and False of  *)
(*     an indicator are the strings "True" and "False".                    *)
(***************************************************************************)
EXTENDS Integers, Sequences, FiniteSets, TLC

\* ------------------------------------------------------------------ bounds

\* Nodes of a document drawn in order, with the first set of node texts.
MaxNodes == 3

\* Nodes of a document under every drawing order, port style and set of
\* node texts.
MaxStyledNodes == 2

\* Nodes of a document with an unexpected shape or an invalid entry.
MaxDefectNodes == 2

\* Expressions of one request whose minimization raises.
MaxFailures == 1

\* The interpreter's recursion limit, scaled to the documents of the model:
\* the depth of nested calls at which RecursionError is raised.
RecursionLimit == 8

\* The longest path handed to generate_boolean_equations by itself.
MaxGivenSteps == 3

\* ------------------------------------------------------------- primitives

\* str(id) for the node ids of the model (0 stands for an id no node has).
Str(i) == <<"0", "1", "2", "3", "4", "5", "6", "7", "8", "9">>[i + 1]

\* The names a text blob may hold, in Python's string order
\* (upper case sorts before lower case).
NamesSorted == <<"Y0", "led", "x", "y">>

Names == {NamesSorted[i] : i \in 1..Len(NamesSorted)}

\* sorted(list(a set of names))
SortNames(S) == SelectSeq(NamesSorted, LAMBDA n : n \in S)

\* SortIds with the greatest id first.
RECURSIVE SortIds_Descending(_)
SortIds_Descending(S) ==
    IF S = {} THEN <<>>
    ELSE LET m == CHOOSE x \in S : \A y \in S : x >= y
         IN  <<m>> \o SortIds_Descending(S \ {m})

\* sorted(list(ids))
RECURSIVE SortIds(_)
SortIds(S) ==
    IF S = {} THEN <<>>
    ELSE LET m == CHOOSE x \in S : \A y \in S : x <= y
         IN  <<m>> \o SortIds(S \ {m})

Range(s) == {s[i] : i \in 1..Len(s)}

\* The concatenation of a sequence of sequences.
RECURSIVE Flatten(_)
Flatten(ss) == IF ss = <<>> THEN <<>> ELSE Head(ss) \o Flatten(Tail(ss))

NodeTypes == {"state", "decision", "event", "other"}

\* ------------------------------------------------------------------ state

VARIABLES
    doc,            \* the request's JSON document
    pc,             \* the statement save_drawflow_data is at
    filtered,       \* parser.parse_drawflow_data(drawflow_data)
    link_path,      \* path_finder.find_link_paths(filtered)
    paths,          \* parser.get_formatted_details_for_all_paths(link_path, filtered)
    table,          \* table_maker.prepare_table_elements(filtered)
    state_codes,    \* table_maker.assign_state_codes(state_list)
    equation,       \* table_maker.generate_boolean_equations(...)
    simplified,     \* the two results of state_reducer.simplify_equations
    vhdl_code,      \* vhdl_generator.generate_vhdl(...)
    exception       \* the call that raised, caught by the handler's except

vars == <<doc, pc, filtered, link_path, paths, table, state_codes, equation,
          simplified, vhdl_code, exception>>

\* ----------------------------------------------------------------- parser

\* parser.parse_drawflow_data, one entry of drawflow.Home.data: the node it
\* appends, as a sequence of at most one node.
FilteredNode(e) ==
    [id |-> e.id, type |-> e.name, inputs |-> e.inputs, outputs |-> e.outputs,
     node_data |-> IF e.hasInnerData THEN e.text ELSE <<>>]

\* Whether the entry passes the shape test and the id test.
EntryKept(e) == e.isMapping /\ e.hasKeys /\ Str(e.id) = e.key

\* Whether node_obj.get('data', {}).get('data', '') raises: the 'data' value
\* of a kept entry has no get method.
EntryRaises(e) == EntryKept(e) /\ ~e.dataIsMapping

\* Whether the chain drawflow_data.get('drawflow', {}).get('Home', {})
\* .get('data', {}) raises: .get is called on a value that is no mapping.
ChainRaises(d) ==
    \/ d.top # "mapping"
    \/ d.drawflow = "other"
    \/ d.drawflow = "mapping" /\ d.home = "other"

\* What the chain returns when it does not raise: the 'data' value, or the
\* {} default of the first absent key.
ChainData(d) ==
    IF d.drawflow = "absent" \/ d.home = "absent" \/ d.data = "absent"
    THEN "mapping_empty"
    ELSE d.data

\* The entries the loop iterates.
ChainEntries(d) == IF ChainData(d) = "mapping" THEN d.entries ELSE <<>>

\* parse_drawflow_data: [raised, nodes].
parse_drawflow_data(d) ==
    IF ChainRaises(d) THEN [raised |-> TRUE, nodes |-> <<>>]
    ELSE IF ChainData(d) = "other" THEN [raised |-> FALSE, nodes |-> <<>>]
    ELSE LET es == ChainEntries(d)
         IN  IF \E i \in 1..Len(es) : EntryRaises(es[i])
             THEN [raised |-> TRUE, nodes |-> <<>>]
             ELSE [raised |-> FALSE,
                   nodes |-> Flatten([i \in 1..Len(es) |->
                                 IF EntryKept(es[i]) THEN <<FilteredNode(es[i])>>
                                 ELSE <<>>])]

\* ------------------------------------------------------------ path finder

\* nodes_map of find_link_paths and of get_formatted_details_for_all_paths:
\* str(id) -> node; a later node of the same id replaces an earlier one.
NodesMap(nodes) ==
    [k \in {Str(nodes[i].id) : i \in 1..Len(nodes)} |->
        nodes[CHOOSE i \in 1..Len(nodes) :
                /\ Str(nodes[i].id) = k
                /\ \A j \in 1..Len(nodes) : Str(nodes[j].id) = k => j <= i]]

\* StartNodeIds with the test of the node's type left out: every node is
\* a seed.
StartNodeIds_AnyType(nodes) ==
    [i \in 1..Len(nodes) |-> Str(nodes[i].id)]

\* start_node_ids: the State ids in the order the nodes appear.
StartNodeIds(nodes) ==
    Flatten([i \in 1..Len(nodes) |->
        IF nodes[i].type = "state" THEN <<Str(nodes[i].id)>> ELSE <<>>])

\* The connections of a node in the order the two loops of _dfs_find_paths
\* visit them: port by port as outputs.items() lists the ports, and within
\* a port by index.
ConnectionsInOrder(node) ==
    Flatten([p \in 1..Len(node.outputs) |-> node.outputs[p].connections])

RECURSIVE dfs_find_paths(_, _, _, _)
RECURSIVE dfs_connections(_, _, _, _)
RECURSIVE dfs_connections_KnownTypes(_, _, _, _)
RECURSIVE dfs_connections_ReturnOnCycle(_, _, _, _)

\* dfs_connections that follows a connection only to a State, a Decision or
\* an Event, and skips a target of any other type.
dfs_connections_KnownTypes(conns, current_path, nodes_map, visited) ==
    IF conns = <<>> THEN <<>>
    ELSE LET target_node_id == Head(conns).node
             rest == dfs_connections_KnownTypes(Tail(conns), current_path,
                                                nodes_map, visited)
         IN  IF target_node_id = "None" THEN rest
             ELSE IF target_node_id \notin DOMAIN nodes_map THEN rest
             ELSE IF nodes_map[target_node_id].type = "state"
                  THEN <<current_path \o <<target_node_id>>>> \o rest
             ELSE IF target_node_id \in visited THEN rest
             ELSE IF nodes_map[target_node_id].type \notin {"decision", "event"}
                  THEN rest
             ELSE dfs_find_paths(target_node_id,
                                 current_path \o <<target_node_id>>,
                                 nodes_map, visited) \o rest

RECURSIVE dfs_shared(_, _, _, _)

\* The two loops with one visited set for the whole search of a seed: the
\* recursive call is given the set itself, not a copy, and nothing is
\* removed on the way back. The paths appended and the set left behind.
dfs_shared(conns, current_path, nodes_map, visited) ==
    IF conns = <<>> THEN [paths |-> <<>>, visited |-> visited]
    ELSE LET target_node_id == Head(conns).node
             skip == dfs_shared(Tail(conns), current_path, nodes_map, visited)
         IN  IF target_node_id = "None" THEN skip
             ELSE IF target_node_id \notin DOMAIN nodes_map THEN skip
             ELSE IF nodes_map[target_node_id].type = "state"
                  THEN [paths |-> <<current_path \o <<target_node_id>>>> \o skip.paths,
                        visited |-> skip.visited]
             ELSE IF target_node_id \in visited THEN skip
             ELSE LET sub == dfs_shared(ConnectionsInOrder(nodes_map[target_node_id]),
                                        current_path \o <<target_node_id>>, nodes_map,
                                        visited \cup {target_node_id})
                      rest == dfs_shared(Tail(conns), current_path, nodes_map,
                                         sub.visited)
                  IN  [paths |-> sub.paths \o rest.paths, visited |-> rest.visited]

\* dfs_connections with the shared visited set.
dfs_connections_SharedVisited(conns, current_path, nodes_map, visited) ==
    dfs_shared(conns, current_path, nodes_map, visited).paths

\* dfs_connections that returns from the node at the first connection to a
\* node already on the walk, leaving the later connections unexplored.
dfs_connections_ReturnOnCycle(conns, current_path, nodes_map, visited) ==
    IF conns = <<>> THEN <<>>
    ELSE LET target_node_id == Head(conns).node
             rest == dfs_connections_ReturnOnCycle(Tail(conns), current_path,
                                                   nodes_map, visited)
         IN  IF target_node_id = "None" THEN rest
             ELSE IF target_node_id \notin DOMAIN nodes_map THEN rest
             ELSE IF nodes_map[target_node_id].type = "state"
                  THEN <<current_path \o <<target_node_id>>>> \o rest
             ELSE IF target_node_id \in visited THEN <<>>
             ELSE dfs_find_paths(target_node_id,
                                 current_path \o <<target_node_id>>,
                                 nodes_map, visited) \o rest

\* The body of the two loops for the connections conns still to visit;
\* visited is visited_in_path with the current node added.
dfs_connections(conns, current_path, nodes_map, visited) ==
    IF conns = <<>> THEN <<>>
    ELSE LET target_node_id == Head(conns).node
             rest == dfs_connections(Tail(conns), current_path, nodes_map, visited)
         IN  IF target_node_id = "None" THEN rest
             ELSE IF target_node_id \notin DOMAIN nodes_map THEN rest
             ELSE IF nodes_map[target_node_id].type = "state"
                  THEN <<current_path \o <<target_node_id>>>> \o rest
             ELSE IF target_node_id \in visited THEN rest
             ELSE dfs_find_paths(target_node_id,
                                 current_path \o <<target_node_id>>,
                                 nodes_map, visited) \o rest

\* _dfs_find_paths: the paths it appends to link_paths, in order.
dfs_find_paths(current_node_id, current_path, nodes_map, visited_in_path) ==
    IF current_node_id \notin DOMAIN nodes_map THEN <<>>
    ELSE dfs_connections(ConnectionsInOrder(nodes_map[current_node_id]),
                         current_path, nodes_map,
                         visited_in_path \cup {current_node_id})

\* The greatest of a non-empty set of numbers.
Max(S) == CHOOSE m \in S : \A x \in S : x <= m

RECURSIVE dfs_depth(_, _, _, _)
RECURSIVE dfs_depth_NoVisited(_, _, _, _)

\* dfs_depth with the test of the visited set left out.
dfs_depth_NoVisited(current_node_id, nodes_map, visited_in_path, depth) ==
    IF depth >= RecursionLimit THEN depth
    ELSE IF current_node_id \notin DOMAIN nodes_map THEN depth
    ELSE LET conns == Range(ConnectionsInOrder(nodes_map[current_node_id]))
             next == {c.node : c \in {d \in conns :
                         /\ d.node \in DOMAIN nodes_map
                         /\ nodes_map[d.node].type # "state"}}
         IN  Max({depth} \cup
                 {dfs_depth_NoVisited(t, nodes_map, visited_in_path, depth + 1) :
                     t \in next})

\* The greatest number of nested calls of _dfs_find_paths that a call at
\* the given depth reaches; at RecursionLimit the interpreter raises
\* RecursionError and goes no deeper.
dfs_depth(current_node_id, nodes_map, visited_in_path, depth) ==
    IF depth >= RecursionLimit THEN depth
    ELSE IF current_node_id \notin DOMAIN nodes_map THEN depth
    ELSE LET visited == visited_in_path \cup {current_node_id}
             conns == Range(ConnectionsInOrder(nodes_map[current_node_id]))
             next == {c.node : c \in {d \in conns :
                         /\ d.node \in DOMAIN nodes_map
                         /\ nodes_map[d.node].type # "state"
                         /\ d.node \notin visited}}
         IN  Max({depth} \cup
                 {dfs_depth(t, nodes_map, visited, depth + 1) : t \in next})

\* The greatest depth of the recursion during find_link_paths (0 when no
\* search starts).
find_link_paths_depth(filtered_nodes) ==
    IF filtered_nodes = <<>> THEN 0
    ELSE LET nodes_map == NodesMap(filtered_nodes)
             starts == StartNodeIds(filtered_nodes)
         IN  Max({0} \cup {dfs_depth(starts[i], nodes_map, {}, 1) :
                              i \in 1..Len(starts)})

\* find_link_paths
find_link_paths(filtered_nodes) ==
    IF filtered_nodes = <<>> THEN <<>>
    ELSE LET nodes_map == NodesMap(filtered_nodes)
             starts == StartNodeIds(filtered_nodes)
         IN  Flatten([i \in 1..Len(starts) |->
                 dfs_find_paths(starts[i], <<starts[i]>>, nodes_map, {})])

\* -------------------------------------------------------------- annotator

RECURSIVE Indicator(_, _)
RECURSIVE Indicator_Swapped(_, _)

\* Indicator with the two port names exchanged.
Indicator_Swapped(input_1_connections, previous_node_id) ==
    IF input_1_connections = <<>> THEN "None"
    ELSE LET conn == Head(input_1_connections)
         IN  IF conn.node = previous_node_id
             THEN IF conn.input = "output_2" THEN "True"
                  ELSE IF conn.input = "output_1" THEN "False"
                  ELSE "None"
             ELSE Indicator_Swapped(Tail(input_1_connections), previous_node_id)

\* The indicator loop over input_1_connections: the first connection from
\* the previous node decides.
Indicator(input_1_connections, previous_node_id) ==
    IF input_1_connections = <<>> THEN "None"
    ELSE LET conn == Head(input_1_connections)
         IN  IF conn.node = previous_node_id
             THEN IF conn.input = "output_1" THEN "True"
                  ELSE IF conn.input = "output_2" THEN "False"
                  ELSE "None"
             ELSE Indicator(Tail(input_1_connections), previous_node_id)

\* The placeholder of an id that is not in the map.
NoneStep == [id |-> 0, data |-> <<>>, type |-> "None", indicator |-> "None"]

\* One step of one path: [id, node_data, type, indicator].
FormattedNodeDetail(single_path_ids, node_index, nodes_map) ==
    LET node_id == single_path_ids[node_index]
    IN  IF node_id \notin DOMAIN nodes_map THEN NoneStep
        ELSE LET n == nodes_map[node_id]
             IN  [id |-> n.id, data |-> n.node_data, type |-> n.type,
                  indicator |->
                      IF node_index > 1
                      THEN Indicator(n.inputs, single_path_ids[node_index - 1])
                      ELSE "None"]

\* get_formatted_details_for_all_paths that formats each node of a path
\* once: a later occurrence of an id the path already holds is left out.
get_formatted_details_for_all_paths_OncePerNode(all_paths_ids, filtered_nodes) ==
    IF all_paths_ids = <<>> \/ filtered_nodes = <<>> THEN <<>>
    ELSE LET nodes_map == NodesMap(filtered_nodes)
         IN  [p \in 1..Len(all_paths_ids) |->
                 Flatten([k \in 1..Len(all_paths_ids[p]) |->
                     IF \E j \in 1..k - 1 : all_paths_ids[p][j] = all_paths_ids[p][k]
                     THEN <<>>
                     ELSE <<FormattedNodeDetail(all_paths_ids[p], k, nodes_map)>>])]

\* get_formatted_details_for_all_paths
get_formatted_details_for_all_paths(all_paths_ids, filtered_nodes) ==
    IF all_paths_ids = <<>> \/ filtered_nodes = <<>> THEN <<>>
    ELSE LET nodes_map == NodesMap(filtered_nodes)
         IN  [p \in 1..Len(all_paths_ids) |->
                 [k \in 1..Len(all_paths_ids[p]) |->
                     FormattedNodeDetail(all_paths_ids[p], k, nodes_map)]]

\* ------------------------------------------------------------ table maker

\* The name a Decision or Event blob holds ("" for the empty blob).
BlobName(node_data) == IF node_data = <<>> THEN "" ELSE node_data[1]

\* prepare_table_elements: the tuple it returns, with its length (the early
\* return for an empty node list has three elements, the final one four).
prepare_table_elements(filtered_nodes) ==
    IF filtered_nodes = <<>>
    THEN [arity |-> 3, states |-> <<>>, inputs |-> <<>>, event_outputs |-> <<>>,
          state_outputs |-> <<>>]
    ELSE LET idx == 1..Len(filtered_nodes)
             n(i) == filtered_nodes[i]
             states == {n(i).id : i \in {j \in idx : n(j).type = "state"}}
             unique_inputs ==
                 {BlobName(n(i).node_data) :
                     i \in {j \in idx : n(j).type = "decision" /\ n(j).node_data # <<>>}}
             event_outputs ==
                 {BlobName(n(i).node_data) :
                     i \in {j \in idx : n(j).type = "event" /\ n(j).node_data # <<>>}}
             with_data == {n(i).id :
                     i \in {j \in idx : n(j).type = "state" /\ n(j).node_data # <<>>}}
         IN  [arity |-> 4,
              states |-> SortIds(states),
              inputs |-> SortNames(unique_inputs),
              event_outputs |-> SortNames(event_outputs),
              state_outputs |->
                  [s \in with_data |->
                      n(CHOOSE i \in idx :
                          /\ n(i).id = s /\ n(i).type = "state"
                          /\ \A j \in idx :
                                (n(j).id = s /\ n(j).type = "state") => j <= i
                       ).node_data]]

\* math.ceil(math.log2(n)) for n >= 1.
RECURSIVE CeilLog2(_)
CeilLog2(n) == IF n <= 1 THEN 0 ELSE 1 + CeilLog2((n + 1) \div 2)

\* bin(i) without its prefix: the binary digits of i, most significant first.
RECURSIVE Bin(_)
Bin(i) == IF i < 2 THEN <<i>> ELSE Bin(i \div 2) \o <<i % 2>>

\* FormatBin with the digits in the opposite order, least significant
\* first.
FormatBin_LsbFirst(i, width) ==
    LET b == Bin(i)
        w == IF Len(b) >= width THEN Len(b) ELSE width
    IN  [k \in 1..w |-> IF k <= Len(b) THEN b[Len(b) + 1 - k] ELSE 0]

\* format(i, '0<width>b'): Bin(i) left-padded with zeros to at least width.
FormatBin(i, width) ==
    LET b == Bin(i)
    IN  IF Len(b) >= width THEN b
        ELSE [k \in 1..width |-> IF k <= width - Len(b) THEN 0 ELSE b[k - (width - Len(b))]]

\* NumBits with the logarithm rounded down.
NumBits_Floor(num_states) ==
    IF num_states > 1 THEN CeilLog2(num_states + 1) - 1 ELSE 1

\* num_bits of assign_state_codes
NumBits(num_states) == IF num_states > 1 THEN CeilLog2(num_states) ELSE 1

\* assign_state_codes: state id -> code, a sequence of bits in string order.
assign_state_codes(states_list) ==
    [s \in Range(states_list) |->
        FormatBin((CHOOSE i \in 1..Len(states_list) : states_list[i] = s) - 1,
                  NumBits(Len(states_list)))]

\* ----------------------------------------------------- equation synthesis

\* symbols('Y:<num_bits>'): the state-bit symbols Y0, Y1, ...
YSym(i) == <<"Y0", "Y1", "Y2", "Y3", "Y4">>[i + 1]

YSyms(num_bits) == {YSym(i) : i \in 0..num_bits - 1}

\* An equation map with no entry.
NoEqns == [k \in {} |-> {}]

\* sympy's false and true.
false == {}
true == {{}}

\* And(term, literal) is false when the literal's complement is in the term.
TermIsFalse(t) == \E l \in t : <<l[1], ~l[2]>> \in t

\* Or(...) is true when one argument is true or two arguments are a symbol
\* and its negation.
OrIsTrue(e) ==
    \/ {} \in e
    \/ \E t \in e : \E l \in t : t = {l} /\ {<<l[1], ~l[2]>>} \in e

\* Or(Or(false, t1), t2) ... folded over a set of terms (Or is commutative
\* and idempotent, and drops an argument that is false).
OrAll(ts) ==
    LET live == {t \in ts : ~TermIsFalse(t)}
    IN  IF OrIsTrue(live) THEN true ELSE live

\* Minterm with only the bits that are '1': no Not(Y[i]) for a '0'.
Minterm_OnesOnly(code) ==
    {<<YSym(i - 1), TRUE>> : i \in {k \in 1..Len(code) : code[k] = 1}}

\* The minterm of a code: Y[i] where the bit at string index i is '1',
\* Not(Y[i]) elsewhere.
Minterm(code) == {<<YSym(i - 1), code[i] = 1>> : i \in 1..Len(code)}

\* InputConjuncts with the two polarities exchanged.
InputConjuncts_Inverted(path, input_vars_list) ==
    {<<BlobName(path[i - 1].data), path[i].indicator = "False">> :
        i \in {k \in 2..Len(path) :
                 /\ path[k] # NoneStep /\ path[k - 1] # NoneStep
                 /\ path[k - 1].type = "decision"
                 /\ BlobName(path[k - 1].data) \in Range(input_vars_list)
                 /\ path[k].indicator \in {"True", "False"}}}

\* The steps i >= 1 of a path that add an input conjunct, each with the
\* literal it adds.
InputConjuncts(path, input_vars_list) ==
    {<<BlobName(path[i - 1].data), path[i].indicator = "True">> :
        i \in {k \in 2..Len(path) :
                 /\ path[k] # NoneStep /\ path[k - 1] # NoneStep
                 /\ path[k - 1].type = "decision"
                 /\ BlobName(path[k - 1].data) \in Range(input_vars_list)
                 /\ path[k].indicator \in {"True", "False"}}}

\* path_condition
PathCondition(path, codes, input_vars_list) ==
    Minterm(codes[path[1].id]) \cup InputConjuncts(path, input_vars_list)

\* PathSkipped with the test of the type of the last step left out.
PathSkipped_AnyEndType(path, codes) ==
    \/ path = <<>>
    \/ path[1] = NoneStep
    \/ path[1].id \notin DOMAIN codes
    \/ path[Len(path)].id \notin DOMAIN codes

\* Whether the loop over the paths leaves a path with no assignment.
PathSkipped(path, codes) ==
    \/ path = <<>>
    \/ path[1] = NoneStep
    \/ path[1].id \notin DOMAIN codes
    \/ path[Len(path)] = NoneStep
    \/ path[Len(path)].type # "state"
    \/ path[Len(path)].id \notin DOMAIN codes

\* The flat list of the Moore output names.
MooreNames(state_outputs_dict) ==
    UNION {Range(state_outputs_dict[s]) : s \in DOMAIN state_outputs_dict}

\* HasEvent with the test of the node's type left out: any step whose
\* text is the name counts.
HasEvent_AnyType(path, e) ==
    \E k \in 1..Len(path) :
        /\ path[k] # NoneStep
        /\ BlobName(path[k].data) = e

\* Whether the loop over the nodes of a path finds an Event step whose
\* text is the output name e.
HasEvent(path, e) ==
    \E k \in 1..Len(path) :
        /\ path[k] # NoneStep
        /\ path[k].type = "event"
        /\ BlobName(path[k].data) = e

\* generate_boolean_equations: [next_state_eqns, output_eqns].
generate_boolean_equations(all_paths, codes, input_vars_list, event_outputs_list, state_outputs_dict) ==
    IF all_paths = <<>> \/ DOMAIN codes = {}
    THEN [next_state_eqns |-> NoEqns, output_eqns |-> NoEqns]
    ELSE LET num_bits == Len(codes[CHOOSE s \in DOMAIN codes : TRUE])
             all_output_names ==
                 Range(event_outputs_list) \cup MooreNames(state_outputs_dict)
             used == {p \in 1..Len(all_paths) : ~PathSkipped(all_paths[p], codes)}
             cond(p) == PathCondition(all_paths[p], codes, input_vars_list)
             end_code(p) == codes[all_paths[p][Len(all_paths[p])].id]
         IN  [next_state_eqns |->
                 [y \in YSyms(num_bits) |->
                     OrAll({cond(p) : p \in {q \in used :
                         \E i \in 1..num_bits :
                             YSym(i - 1) = y /\ end_code(q)[i] = 1}})],
              output_eqns |->
                 [o \in all_output_names |->
                     OrAll({cond(p) : p \in {q \in used :
                                o \in Range(event_outputs_list)
                                /\ HasEvent(all_paths[q], o)}}
                           \cup
                           {Minterm(codes[s]) : s \in {r \in DOMAIN state_outputs_dict :
                                r \in DOMAIN codes
                                /\ o \in Range(state_outputs_dict[r])}})]]

\* Whether a valuation (the set of the symbols that are true) satisfies an
\* expression.
Sat(e, val) == \E t \in e : \A l \in t : (l[1] \in val) = l[2]

\* ---------------------------------------------------------- state reducer

\* The free symbols of an expression.
FreeSymbols(e) == {l[1] : l \in UNION e}

\* The terms over a set of symbols: each symbol positive, negated or absent.
TermsOver(syms) ==
    UNION {{{<<n, n \in P>> : n \in D} : P \in SUBSET D} : D \in SUBSET syms}

\* Whether every valuation of syms that satisfies term t satisfies e.
Implies(t, e, syms) ==
    \A val \in SUBSET syms : Sat({t}, val) => Sat(e, val)

\* The prime implicants of e: the implicants no literal can be removed from.
PrimeImplicants(e) ==
    LET syms == FreeSymbols(e)
    IN  {t \in TermsOver(syms) :
            /\ Implies(t, e, syms)
            /\ \A l \in t : ~Implies(t \ {l}, e, syms)}

\* Whether a set of terms has the truth table of e.
Covers(c, e) ==
    \A val \in SUBSET FreeSymbols(e) : Sat(c, val) = Sat(e, val)

\* simplify_logic(expression, form='dnf', force=True): a sum of prime
\* implicants with the truth table of the expression and no fewer terms
\* possible (which of several smallest sums sympy returns is left open).
simplify_logic(e) ==
    LET primes == PrimeImplicants(e)
        sums == {c \in SUBSET primes : Covers(c, e)}
    IN  CHOOSE c \in sums : \A d \in sums : Cardinality(c) <= Cardinality(d)

\* simplify_equations that stores nothing for a key whose minimization
\* raised.
simplify_equations_DropFailed(equations_dict, failing) ==
    IF DOMAIN equations_dict = {} THEN NoEqns
    ELSE [k \in DOMAIN equations_dict \ failing |-> simplify_logic(equations_dict[k])]

\* simplify_equations; failing holds the keys for which simplify_logic
\* raises, whose original expression the handler keeps.
simplify_equations(equations_dict, failing) ==
    IF DOMAIN equations_dict = {} THEN NoEqns
    ELSE [k \in DOMAIN equations_dict |->
             IF k \in failing THEN equations_dict[k]
             ELSE simplify_logic(equations_dict[k])]

\* ---------------------------------------------------------- VHDL generator

\* RenderLiteral with the bits of current_state counted from the other end.
RenderLiteral_ReversedIndex(l, num_bits) ==
    IF l[1] \in YSyms(num_bits)
    THEN [signal |-> "current_state",
          index |-> num_bits - 1 - (CHOOSE i \in 0..num_bits - 1 : YSym(i) = l[1]),
          positive |-> l[2]]
    ELSE [signal |-> l[1], index |-> -1, positive |-> l[2]]

\* sympy_expr_to_vhdl on a symbol or its negation: a state variable becomes
\* a bit of current_state, any other symbol its name.
RenderLiteral(l, num_bits) ==
    IF l[1] \in YSyms(num_bits)
    THEN [signal |-> "current_state",
          index |-> CHOOSE i \in 0..num_bits - 1 : YSym(i) = l[1],
          positive |-> l[2]]
    ELSE [signal |-> l[1], index |-> -1, positive |-> l[2]]

\* sympy_expr_to_vhdl: '1', '0', or the rendered terms joined by or, the
\* literals of a term joined by and.
sympy_expr_to_vhdl(expr, num_bits) ==
    IF expr = true THEN [text |-> "'1'", terms |-> {}]
    ELSE IF expr = false THEN [text |-> "'0'", terms |-> {}]
    ELSE [text |-> "or", terms |-> {{RenderLiteral(l, num_bits) : l \in t} : t \in expr}]

\* The assignment of the default '0' to a target with no equation.
DefaultMissing == [text |-> "'0' -- Default/missing equation", terms |-> {}]

ErrorComment == "-- VHDL Generation Error: Missing state codes or equations."

\* The exception of iterating the single Symbol that sympy.symbols returns
\* for one name.
TypeErrorNotIterable == "TypeError: 'Symbol' object is not iterable"

\* The orders list(set(outputs_list)) may give.
ListOfSet(S) ==
    {q \in [1..Cardinality(S) -> S] : \A i, j \in 1..Cardinality(S) : q[i] = q[j] => i = j}

\* generate_vhdl; outputs_list is the list list(set(outputs_list)) gave.
\* The result is the error comment, the exception, or the parts of the
\* VHDL text.
generate_vhdl(inputs_list, outputs_list, codes, next_eqns, out_eqns) ==
    IF DOMAIN codes = {} \/ (DOMAIN next_eqns = {} /\ DOMAIN out_eqns = {})
    THEN [kind |-> "comment", text |-> ErrorComment]
    ELSE IF Len(outputs_list) = 1
    THEN [kind |-> "raised", text |-> TypeErrorNotIterable]
    ELSE LET num_bits == Len(codes[CHOOSE s \in DOMAIN codes : TRUE])
         IN  [kind |-> "vhdl",
              ports |->
                  [i \in 1..Len(inputs_list) |-> [name |-> inputs_list[i], dir |-> "in"]]
                  \o
                  [i \in 1..Len(outputs_list) |-> [name |-> outputs_list[i], dir |-> "out"]],
              num_bits |-> num_bits,
              next_state |->
                  [i \in 0..num_bits - 1 |->
                      IF YSym(i) \in DOMAIN next_eqns
                      THEN sympy_expr_to_vhdl(next_eqns[YSym(i)], num_bits)
                      ELSE DefaultMissing],
              outputs |->
                  [i \in 1..Len(outputs_list) |->
                      [name |-> outputs_list[i],
                       rhs |-> IF outputs_list[i] \in DOMAIN out_eqns
                               THEN sympy_expr_to_vhdl(out_eqns[outputs_list[i]], num_bits)
                               ELSE DefaultMissing]],
              reset_state_code |-> [i \in 1..num_bits |-> 0]]

\* ------------------------------------------------------------- documents

\* The text of a node under a naming scheme. Scheme "a": Moore outputs
\* shared between states, two Decisions on one input, an Event named as an
\* input or as a Moore output. Scheme "b": empty blobs, a name that is also
\* the name of a state-bit symbol, a Moore output named as an input.
NodeText(scheme, type, id) ==
    IF scheme = "a"
    THEN CASE type = "state"    -> <<<<"led">>, <<>>, <<"led", "y">>, <<"y">>, <<>>>>[id]
           [] type = "decision" -> <<<<"x">>, <<"y">>, <<"x">>, <<"x">>, <<"y">>>>[id]
           [] type = "event"    -> <<<<"led">>, <<"x">>, <<"y">>, <<"led">>, <<"x">>>>[id]
           [] OTHER             -> <<"x">>
    ELSE CASE type = "state"    -> <<<<"x">>, <<"Y0">>, <<>>, <<"led">>, <<>>>>[id]
           [] type = "decision" -> <<<<>>, <<"Y0">>, <<"x">>, <<"x">>, <<"y">>>>[id]
           [] type = "event"    -> <<<<>>, <<"led">>, <<"Y0">>, <<"x">>, <<>>>>[id]
           [] OTHER             -> <<>>

Schemes == {"a", "b"}

\* How the connections were drawn: in the order of the source nodes, in the
\* reverse order, with every output_2 connection ending at input_2 of its
\* target, or with output_2 listed before output_1 in the 'outputs' mapping.
Styles == {"fwd", "rev", "in2", "swap"}

\* What the editor lets a node be: its type and the node each of its output
\* ports is connected to (0: not connected). Only a Decision has output_2.
NodeChoices(n) ==
    {c \in [type : NodeTypes, o1 : 0..n, o1b : {0}, o2 : 0..n] :
        c.type # "decision" => c.o2 = 0}

\* The input port a connection from an output port ends at.
TargetPort(port, style) ==
    IF style = "in2" /\ port = "output_2" THEN "input_2" ELSE "input_1"

\* The connections of a graph in the order they were drawn.
EdgesDrawn(g, n, style) ==
    LET fwd == Flatten([i \in 1..n |->
                   (IF g[i].o1 # 0
                    THEN <<[src |-> i, port |-> "output_1", dst |-> g[i].o1]>>
                    ELSE <<>>)
                   \o
                   (IF g[i].o1b # 0
                    THEN <<[src |-> i, port |-> "output_1", dst |-> g[i].o1b]>>
                    ELSE <<>>)
                   \o
                   (IF g[i].o2 # 0
                    THEN <<[src |-> i, port |-> "output_2", dst |-> g[i].o2]>>
                    ELSE <<>>)])
    IN  IF style = "rev" THEN [k \in 1..Len(fwd) |-> fwd[Len(fwd) + 1 - k]] ELSE fwd

\* The 'outputs' value of node i.
OutputsOf(g, i, style) ==
    LET conn(t, port) ==
            IF t = 0 THEN <<>>
            ELSE <<[node |-> Str(t), output |-> TargetPort(port, style)]>>
        output_1 == <<[port |-> "output_1",
                       connections |-> conn(g[i].o1, "output_1")
                                       \o conn(g[i].o1b, "output_1")]>>
        output_2 == IF g[i].type = "decision"
                    THEN <<[port |-> "output_2",
                            connections |-> conn(g[i].o2, "output_2")]>>
                    ELSE <<>>
    IN  IF style = "swap" THEN output_2 \o output_1 ELSE output_1 \o output_2

\* The connections of input_1 of node i: the source node and, in the field
\* 'input', the source's port.
InputsOf(edges, i, style) ==
    LET mine == SelectSeq(edges,
                    LAMBDA e : e.dst = i /\ TargetPort(e.port, style) = "input_1")
    IN  [k \in 1..Len(mine) |-> [node |-> Str(mine[k].src), input |-> mine[k].port]]

\* The entry of node i in drawflow.Home.data.
Entry(g, n, style, scheme, i) ==
    [key |-> Str(i), isMapping |-> TRUE, hasKeys |-> TRUE, id |-> i,
     name |-> g[i].type, dataIsMapping |-> TRUE, hasInnerData |-> TRUE,
     text |-> NodeText(scheme, g[i].type, i),
     inputs |-> InputsOf(EdgesDrawn(g, n, style), i, style),
     outputs |-> OutputsOf(g, i, style)]

\* The document the editor exports for a graph.
Document(g, n, style, scheme) ==
    [top |-> "mapping", drawflow |-> "mapping", home |-> "mapping", data |-> "mapping",
     entries |-> [i \in 1..n |-> Entry(g, n, style, scheme, i)]]

\* The graphs of n nodes.
Graphs(n) == [1..n -> NodeChoices(n)]

\* The graphs of n nodes that are one Decision and n - 1 States, each State
\* connected to the Decision or to nothing.
StarGraphs(n) ==
    {g \in Graphs(n) :
        \E d \in 1..n :
            /\ g[d].type = "decision"
            /\ \A i \in (1..n) \ {d} : g[i].type = "state" /\ g[i].o1 \in {0, d}}

\* The graphs of n nodes whose node 1 is a State with two connections at
\* its output_1 and whose other nodes are Decisions and Events.
FanGraphs(n) ==
    {[i \in 1..n |->
        IF i = 1 THEN [type |-> "state", o1 |-> a, o1b |-> b, o2 |-> 0] ELSE h[i]] :
        a \in 1..n, b \in 1..n,
        h \in [2..n -> {c \in NodeChoices(n) : c.type \in {"decision", "event"}}]}

\* The values a key of the document may hold: no value, a mapping, or a
\* value of another JSON type.
Shapes == {"absent", "mapping", "other"}

\* One entry made invalid.
Defects == {"notMapping", "missingKeys", "idMismatch", "dataNotMapping", "noInnerData"}

WithDefect(e, defect) ==
    CASE defect = "notMapping"     -> [e EXCEPT !.isMapping = FALSE]
      [] defect = "missingKeys"    -> [e EXCEPT !.hasKeys = FALSE]
      [] defect = "idMismatch"     -> [e EXCEPT !.key = Str(e.id + 1)]
      [] defect = "dataNotMapping" -> [e EXCEPT !.dataIsMapping = FALSE]
      [] OTHER                     -> [e EXCEPT !.hasInnerData = FALSE]

\* ---------------------------------------------------------------- actions

None == "None"

InitDocument(d) ==
    /\ doc = d
    /\ pc = "start"
    /\ filtered = None
    /\ link_path = None
    /\ paths = None
    /\ table = None
    /\ state_codes = None
    /\ equation = None
    /\ simplified = None
    /\ vhdl_code = None
    /\ exception = None

Init ==
    \/ \E n \in 0..MaxNodes : \E g \in Graphs(n) :
           InitDocument(Document(g, n, "fwd", "a"))
    \/ \E n \in 0..MaxStyledNodes : \E g \in Graphs(n) :
       \E style \in Styles : \E scheme \in Schemes :
           InitDocument(Document(g, n, style, scheme))
    \/ \E g \in StarGraphs(MaxNodes + 1) :
       \E style \in Styles : \E scheme \in Schemes :
           InitDocument(Document(g, MaxNodes + 1, style, scheme))
    \/ \E g \in FanGraphs(MaxNodes) :
           InitDocument(Document(g, MaxNodes, "fwd", "a"))
    \/ \E n \in 0..MaxDefectNodes : \E g \in Graphs(n) :
       \E top \in {"mapping", "other"} : \E drawflow, home, data \in Shapes :
           InitDocument([Document(g, n, "fwd", "a") EXCEPT
                            !.top = top, !.drawflow = drawflow,
                            !.home = home, !.data = data])
    \/ \E n \in 1..MaxDefectNodes : \E g \in Graphs(n) :
       \E i \in 1..n : \E defect \in Defects :
           InitDocument([Document(g, n, "fwd", "a") EXCEPT
                            !.entries[i] = WithDefect(@, defect)])

\* filtered = parser.parse_drawflow_data(drawflow_data)
Parse ==
    /\ pc = "start"
    /\ LET r == parse_drawflow_data(doc)
       IN  IF r.raised
           THEN /\ pc' = "error500"
                /\ exception' = "parse_drawflow_data"
                /\ UNCHANGED filtered
           ELSE /\ pc' = "parsed"
                /\ filtered' = r.nodes
                /\ UNCHANGED exception
    /\ UNCHANGED <<doc, link_path, paths, table, state_codes, equation, simplified, vhdl_code>>

\* link_path = path_finder.find_link_paths(filtered)
FindLinkPaths ==
    /\ pc = "parsed"
    /\ link_path' = find_link_paths(filtered)
    /\ pc' = "found"
    /\ UNCHANGED <<doc, filtered, paths, table, state_codes, equation, simplified,
                   vhdl_code, exception>>

\* paths = parser.get_formatted_details_for_all_paths(link_path, filtered)
Annotate ==
    /\ pc = "found"
    /\ paths' = get_formatted_details_for_all_paths(link_path, filtered)
    /\ pc' = "annotated"
    /\ UNCHANGED <<doc, filtered, link_path, table, state_codes, equation, simplified,
                   vhdl_code, exception>>

\* table = table_maker.prepare_table_elements(filtered), and the unpacking
\* of the tuple into four names, which raises ValueError on a 3-tuple.
PrepareTable ==
    /\ pc = "annotated"
    /\ table' = prepare_table_elements(filtered)
    /\ IF table'.arity = 4
       THEN pc' = "tabled" /\ UNCHANGED exception
       ELSE pc' = "error500" /\ exception' = "unpack prepare_table_elements"
    /\ UNCHANGED <<doc, filtered, link_path, paths, state_codes, equation, simplified,
                   vhdl_code>>

\* state_codes = table_maker.assign_state_codes(state_list)
AssignStateCodes ==
    /\ pc = "tabled"
    /\ state_codes' = assign_state_codes(table.states)
    /\ pc' = "coded"
    /\ UNCHANGED <<doc, filtered, link_path, paths, table, equation, simplified,
                   vhdl_code, exception>>

\* equation = table_maker.generate_boolean_equations(...)
GenerateEquations ==
    /\ pc = "coded"
    /\ equation' = generate_boolean_equations(paths, state_codes, table.inputs,
                       table.event_outputs, table.state_outputs)
    /\ pc' = "equations"
    /\ UNCHANGED <<doc, filtered, link_path, paths, table, state_codes, simplified,
                   vhdl_code, exception>>

\* The keys of the two maps at which simplify_logic may raise during one
\* request: each a pair of the map and the key.
Failures(eqns) ==
    {F \in SUBSET (({"state"} \X DOMAIN eqns.next_state_eqns)
                      \cup ({"output"} \X DOMAIN eqns.output_eqns)) :
        Cardinality(F) <= MaxFailures}

\* The two calls of state_reducer.simplify_equations; simplified.failed
\* holds the keys the handler printed its diagnostic for.
Simplify ==
    /\ pc = "equations"
    /\ \E failing \in Failures(equation) :
          simplified' =
              [state |-> simplify_equations(equation.next_state_eqns,
                             {f[2] : f \in {g \in failing : g[1] = "state"}}),
               output |-> simplify_equations(equation.output_eqns,
                             {f[2] : f \in {g \in failing : g[1] = "output"}}),
               failed |-> failing]
    /\ pc' = "simplified"
    /\ UNCHANGED <<doc, filtered, link_path, paths, table, state_codes, equation,
                   vhdl_code, exception>>

\* total_output = flat_list + event_outputs, as a set.
TotalOutput(tbl) == MooreNames(tbl.state_outputs) \cup Range(tbl.event_outputs)

\* vhdl_code = vhdl_generator.generate_vhdl("test", ...); the order of
\* list(set(outputs_list)) is the interpreter's choice.
GenerateVhdl ==
    /\ pc = "simplified"
    /\ \E outputs_list \in ListOfSet(TotalOutput(table)) :
          vhdl_code' = generate_vhdl(table.inputs, outputs_list, state_codes,
                                     simplified.state, simplified.output)
    /\ IF vhdl_code'.kind = "raised"
       THEN pc' = "error500" /\ exception' = "generate_vhdl"
       ELSE pc' = "done" /\ UNCHANGED exception
    /\ UNCHANGED <<doc, filtered, link_path, paths, table, state_codes, equation, simplified>>

Next ==
    \/ Parse
    \/ FindLinkPaths
    \/ Annotate
    \/ PrepareTable
    \/ AssignStateCodes
    \/ GenerateEquations
    \/ Simplify
    \/ GenerateVhdl

Spec == Init /\ [][Next]_vars


\* ------------------------------------------------------------------ claims

\* The type of the node an id of a path names.
TypeOf(id) == NodesMap(filtered)[id].type

\* The targets of the connections of the node an id names.
TargetsOf(id) ==
    {c.node : c \in Range(ConnectionsInOrder(NodesMap(filtered)[id]))}

\* C1: every path find_link_paths returns has length >= 2, starts and ends
\* at a State node, holds no State node at an interior position and no
\* interior node id twice.
C1_PathsWellFormed ==
    pc = "found" =>
        \A p \in 1..Len(link_path) :
            LET path == link_path[p]
            IN  /\ Len(path) >= 2
                /\ TypeOf(path[1]) = "state"
                /\ TypeOf(path[Len(path)]) = "state"
                /\ \A k \in 2..Len(path) - 1 : TypeOf(path[k]) # "state"
                /\ \A j, k \in 2..Len(path) - 1 : path[j] = path[k] => j = k

\* C1, its case: a path through two intermediate nodes the second of which
\* is connected back to the first (a cycle the search cut).
C1_Witness ==
    /\ pc = "found"
    /\ \E p \in 1..Len(link_path) :
          /\ Len(link_path[p]) >= 4
          /\ link_path[p][2] \in TargetsOf(link_path[p][3])

\* The valuations of the state bits and the inputs: the set of the symbols
\* that are true.
Valuations ==
    SUBSET (YSyms(Len(state_codes[CHOOSE s \in DOMAIN state_codes : TRUE]))
            \cup Range(table.inputs))

\* Whether a valuation selects a code: bit i of the state register is the
\* character at string index i.
SelectsCode(val, code) ==
    \A i \in 1..Len(code) : (YSym(i - 1) \in val) = (code[i] = 1)

\* Whether a valuation satisfies the Decision conjuncts of an annotated
\* path: input v for indicator True, not v for indicator False, for every
\* step after a Decision whose blob names the input v.
SatisfiesDecisions(val, path) ==
    \A k \in 2..Len(path) :
        (path[k - 1].type = "decision" /\ path[k - 1].data # <<>>) =>
            /\ path[k].indicator = "True" => path[k - 1].data[1] \in val
            /\ path[k].indicator = "False" => path[k - 1].data[1] \notin val

NodeOf(i) == NodesMap(filtered)[Str(i)]

\* The connections of an output port of a node.
PortConnections(node, port) ==
    Flatten([k \in 1..Len(node.outputs) |->
        IF node.outputs[k].port = port THEN node.outputs[k].connections ELSE <<>>])

\* Scenario S2: the States s0 < s1 < s2 and the Decision d on an input;
\* s0 is connected to d, output_1 of d to s1, output_2 of d to s2, and
\* there is no other connection.
ConditionalBranch(s0, s1, s2, d) ==
    /\ Len(filtered) = 4
    /\ {s0, s1, s2, d} = 1..4
    /\ s0 < s1 /\ s1 < s2
    /\ NodeOf(s0).type = "state" /\ NodeOf(s1).type = "state"
    /\ NodeOf(s2).type = "state" /\ NodeOf(d).type = "decision"
    /\ NodeOf(d).node_data # <<>>
    /\ ConnectionsInOrder(NodeOf(s0)) = <<[node |-> Str(d), output |-> "input_1"]>>
    /\ ConnectionsInOrder(NodeOf(s1)) = <<>>
    /\ ConnectionsInOrder(NodeOf(s2)) = <<>>
    /\ PortConnections(NodeOf(d), "output_1") = <<[node |-> Str(s1), output |-> "input_1"]>>
    /\ PortConnections(NodeOf(d), "output_2") = <<[node |-> Str(s2), output |-> "input_1"]>>

\* Whether the equation of a state bit is satisfied exactly when the present
\* state is S0 (code 00) and the input x has the value b.
ExactlyS0And(eqns, bit, x, b) ==
    \A val \in SUBSET {"Y0", "Y1", x} :
        Sat(eqns[YSym(bit)], val)
        <=> ("Y0" \notin val /\ "Y1" \notin val /\ (x \in val) = b)

\* C3 as stated: in scenario S2 the equation of next_state(0) is satisfied
\* exactly when the present state is S0 and x is true, and the equation of
\* next_state(1) exactly when the present state is S0 and x is false.
C3_AsStated ==
    pc = "equations" =>
        \A s0, s1, s2, d \in 1..4 :
            ConditionalBranch(s0, s1, s2, d) =>
                /\ ExactlyS0And(equation.next_state_eqns, 0, NodeOf(d).node_data[1], TRUE)
                /\ ExactlyS0And(equation.next_state_eqns, 1, NodeOf(d).node_data[1], FALSE)

\* C3 amended: in scenario S2 the codes are S0=00, S1=01, S2=10 and the
\* '1' of S1's code is at string index 1, so the equation of next_state(1)
\* is satisfied exactly when the present state is S0 and x is true, and the
\* equation of next_state(0) exactly when the present state is S0 and x is
\* false; the minimized equations have the same truth tables.
C3_ConditionalBranch ==
    \A s0, s1, s2, d \in 1..4 :
        (pc \in {"equations", "simplified"} /\ ConditionalBranch(s0, s1, s2, d)) =>
            /\ state_codes[s0] = <<0, 0>>
            /\ state_codes[s1] = <<0, 1>>
            /\ state_codes[s2] = <<1, 0>>
            /\ LET eqns == IF pc = "equations" THEN equation.next_state_eqns
                           ELSE simplified.state
                   x == NodeOf(d).node_data[1]
               IN  /\ ExactlyS0And(eqns, 1, x, TRUE)
                   /\ ExactlyS0And(eqns, 0, x, FALSE)

\* C3, its case: the equations of scenario S2 have been synthesized.
C3_Witness ==
    /\ pc = "simplified"
    /\ \E s0, s1, s2, d \in 1..4 : ConditionalBranch(s0, s1, s2, d)

\* The valuation of the state bits that selects a code.
ValuationOf(code) == {YSym(i - 1) : i \in {k \in 1..Len(code) : code[k] = 1}}

\* C4: for every (state id, output name) pair of the Moore table whose
\* state has a code, the output equation of that name is satisfied by the
\* valuation selecting the state's code, and the maps hold an entry for
\* every state bit and every output symbol, also when no path was
\* enumerated.
C4_MooreOutputs ==
    pc = "equations" =>
        /\ \A s \in DOMAIN table.state_outputs :
           \A o \in Range(table.state_outputs[s]) :
              s \in DOMAIN state_codes =>
                  /\ o \in DOMAIN equation.output_eqns
                  /\ Sat(equation.output_eqns[o], ValuationOf(state_codes[s]))
        /\ DOMAIN state_codes # {} =>
              /\ \A i \in 1..Len(state_codes[CHOOSE s \in DOMAIN state_codes : TRUE]) :
                    YSym(i - 1) \in DOMAIN equation.next_state_eqns
              /\ TotalOutput(table) \subseteq DOMAIN equation.output_eqns

\* C5 as stated: the indicator of the first step of an annotated path is
\* None, and so is the indicator of every step whose predecessor is not a
\* Decision.
C5_AsStated ==
    pc = "annotated" =>
        \A p \in 1..Len(paths) :
            /\ paths[p][1].indicator = "None"
            /\ \A k \in 2..Len(paths[p]) :
                  paths[p][k - 1].type # "decision" => paths[p][k].indicator = "None"

\* The port names of the input_1 connections a node holds from a given
\* source node, in order.
PortsFrom(node, source) ==
    LET from == SelectSeq(node.inputs, LAMBDA c : c.node = source)
    IN  [k \in 1..Len(from) |-> from[k].input]

\* C5 amended: the indicator of the first step is None; the indicator of a
\* later step does not depend on the type of its predecessor: it is True
\* when the first input_1 connection from the predecessor names output_1
\* (so for a step reached through output_1 of a State or an Event), False
\* when it names output_2, and None when it names another port or there is
\* no such connection.
C5_IndicatorFromPort ==
    pc = "annotated" =>
        \A p \in 1..Len(paths) :
            /\ paths[p][1].indicator = "None"
            /\ \A k \in 2..Len(paths[p]) :
                  LET ports == PortsFrom(NodesMap(filtered)[link_path[p][k]],
                                         link_path[p][k - 1])
                  IN  paths[p][k].indicator =
                          IF ports # <<>> /\ ports[1] = "output_1" THEN "True"
                          ELSE IF ports # <<>> /\ ports[1] = "output_2" THEN "False"
                          ELSE "None"

\* C5, its case: a step reached through output_1 of a State, with indicator
\* True.
C5_Witness ==
    /\ pc = "annotated"
    /\ \E p \in 1..Len(paths) : \E k \in 2..Len(paths[p]) :
          paths[p][k - 1].type = "state" /\ paths[p][k].indicator = "True"

\* Whether a sequence of connections holds one to a node at its input_1.
ConnectsTo(conns, id) ==
    \E k \in 1..Len(conns) : conns[k].node = id /\ conns[k].output = "input_1"

\* C6: when output_1 and output_2 of a Decision are both connected to the
\* same successor, the enumerator emits the walk through them twice and the
\* step after the Decision has indicator True in one of the two walks and
\* False in the other.
C6_BranchesDistinguished ==
    pc = "annotated" =>
        \A p \in 1..Len(paths) : \A k \in 1..Len(paths[p]) - 1 :
            LET d == NodesMap(filtered)[link_path[p][k]]
                n == link_path[p][k + 1]
            IN  ( /\ d.type = "decision"
                  /\ ConnectsTo(PortConnections(d, "output_1"), n)
                  /\ ConnectsTo(PortConnections(d, "output_2"), n) ) =>
                \E q \in 1..Len(paths) :
                    /\ link_path[q] = link_path[p]
                    /\ {paths[p][k + 1].indicator, paths[q][k + 1].indicator}
                           = {"True", "False"}

\* The entries of the document that are valid: a mapping with the five
\* keys, whose id is its key.
ValidEntries(d) ==
    SelectSeq(d.entries,
              LAMBDA e : e.isMapping /\ e.hasKeys /\ Str(e.id) = e.key)

\* Whether the document has the shape drawflow.Home.data of mappings.
ShapeRecognized(d) ==
    d.top = "mapping" /\ d.drawflow = "mapping" /\ d.home = "mapping" /\ d.data = "mapping"

\* C7: parse_drawflow_data never raises; it returns the empty list when the
\* top-level shape is unrecognized, and otherwise one node per valid entry,
\* in order.
C7_ParserNeverRaises ==
    /\ exception # "parse_drawflow_data"
    /\ pc = "parsed" =>
          IF ShapeRecognized(doc)
          THEN /\ Len(filtered) = Len(ValidEntries(doc))
               /\ \A i \in 1..Len(filtered) : filtered[i].id = ValidEntries(doc)[i].id
          ELSE filtered = <<>>

\* C8 as stated: a node whose type is none of state, decision, event is in
\* no enumerated path: every interior node of every path is a Decision or
\* an Event.
C8_AsStated ==
    pc = "found" =>
        \A p \in 1..Len(link_path) : \A k \in 2..Len(link_path[p]) - 1 :
            TypeOf(link_path[p][k]) \in {"decision", "event"}

\* The non-empty blobs of the nodes of a type.
BlobsOf(type) ==
    {filtered[i].node_data[1] :
        i \in {j \in 1..Len(filtered) :
                 filtered[j].type = type /\ filtered[j].node_data # <<>>}}

\* C8 amended: a node whose type is none of state, decision, event gives no
\* state, no input and no output name, but the enumerator walks through it
\* as an intermediate node: where a State s is connected to such a node
\* and that node to a State t, the path s, node, t is enumerated and every
\* next-state equation of a bit set in t's code holds whenever the present
\* state is s.
C8_OtherTypeTraversed ==
    pc = "equations" =>
        /\ Range(table.states) =
              {filtered[i].id : i \in {j \in 1..Len(filtered) : filtered[j].type = "state"}}
        /\ Range(table.inputs) = BlobsOf("decision")
        /\ Range(table.event_outputs) = BlobsOf("event")
        /\ \A s, x, t \in DOMAIN NodesMap(filtered) :
              ( /\ TypeOf(s) = "state" /\ TypeOf(t) = "state"
                /\ TypeOf(x) \notin {"state", "decision", "event"}
                /\ x \in TargetsOf(s) /\ t \in TargetsOf(x) ) =>
              /\ <<s, x, t>> \in Range(link_path)
              /\ \A i \in 1..Len(state_codes[NodesMap(filtered)[t].id]) :
                    state_codes[NodesMap(filtered)[t].id][i] = 1 =>
                        \A val \in Valuations :
                            SelectsCode(val, state_codes[NodesMap(filtered)[s].id]) =>
                                Sat(equation.next_state_eqns[YSym(i - 1)], val)

\* C8, its case: a State connected to a node of another type that is
\* connected to a State whose code has a bit set.
C8_Witness ==
    /\ pc = "equations"
    /\ \E s, x, t \in DOMAIN NodesMap(filtered) :
          /\ TypeOf(s) = "state" /\ TypeOf(t) = "state"
          /\ TypeOf(x) \notin {"state", "decision", "event"}
          /\ x \in TargetsOf(s) /\ t \in TargetsOf(x)
          /\ \E i \in 1..Len(state_codes[NodesMap(filtered)[t].id]) :
                state_codes[NodesMap(filtered)[t].id][i] = 1

\* Whether the node list is one of the soft failures: empty, or with no
\* State node.
SoftFailure ==
    \/ filtered = <<>>
    \/ \A i \in 1..Len(filtered) : filtered[i].type # "state"

\* C9: for a document whose normalized node list is empty and for a
\* document with no State node, no stage of save_drawflow_data raises and
\* the final result is a VHDL skeleton or an error-comment VHDL string.
C9_SoftFailureCompletes ==
    /\ (pc = "error500" /\ exception # "parse_drawflow_data") => ~SoftFailure
    /\ (pc = "done" /\ SoftFailure) => vhdl_code.kind \in {"comment", "vhdl"}

\* C10: the port list generate_vhdl emits declares each identifier at most
\* once.
C10_PortsDeclaredOnce ==
    (pc = "done" /\ vhdl_code.kind = "vhdl") =>
        \A i, j \in 1..Len(vhdl_code.ports) :
            vhdl_code.ports[i].name = vhdl_code.ports[j].name => i = j

\* C11: two runs of the pipeline on the same document give the same VHDL:
\* whatever order the iteration over the set of output names takes,
\* generate_vhdl returns the same ports and the same assignments in the
\* same order.
C11_Reproducible ==
    pc = "simplified" =>
        \A a, b \in ListOfSet(TotalOutput(table)) :
            generate_vhdl(table.inputs, a, state_codes, simplified.state, simplified.output)
            = generate_vhdl(table.inputs, b, state_codes, simplified.state, simplified.output)

\* The number a code reads as, most significant digit first.
RECURSIVE BinValue(_)
BinValue(code) ==
    IF code = <<>> THEN 0
    ELSE 2 * BinValue(SubSeq(code, 1, Len(code) - 1)) + code[Len(code)]

\* max(1, ceil(log2(n))): the least width w >= 1 with 2^w >= n.
Width(n) ==
    CHOOSE w \in 1..(n + 1) : 2^w >= n /\ (w = 1 \/ 2^(w - 1) < n)

\* C12: assign_state_codes gives the k-th state id (k from 0) of the sorted
\* list the binary representation of k in max(1, ceil(log2(n))) digits,
\* distinct states get distinct codes, and the empty list gives the empty
\* mapping.
C12_SequentialCodes ==
    pc = "coded" =>
        /\ DOMAIN state_codes = Range(table.states)
        /\ \A k \in 1..Len(table.states) :
              /\ Len(state_codes[table.states[k]]) = Width(Len(table.states))
              /\ BinValue(state_codes[table.states[k]]) = k - 1
        /\ \A j, k \in 1..Len(table.states) :
              state_codes[table.states[j]] = state_codes[table.states[k]] => j = k

\* C12, its case: three states, whose codes need two digits.
C12_Witness ==
    /\ pc = "coded"
    /\ Len(table.states) = 3
    /\ state_codes[table.states[3]] = <<1, 0>>

\* C13: generate_vhdl raises nothing, whatever the number of output names,
\* and assigns to every output name that has an equation the rendering of
\* that equation; the '0' default is emitted only for an output with no
\* equation.
C13_OutputsAssigned ==
    /\ exception # "generate_vhdl"
    /\ (pc = "done" /\ vhdl_code.kind = "vhdl") =>
          \A i \in 1..Len(vhdl_code.outputs) :
              LET o == vhdl_code.outputs[i]
              IN  IF o.name \in DOMAIN simplified.output
                  THEN o.rhs = sympy_expr_to_vhdl(simplified.output[o.name],
                                                  vhdl_code.num_bits)
                  ELSE o.rhs = DefaultMissing

\* C14: for every event output name e that has an equation, a valuation
\* satisfies output_eqns[e] iff some enumerated path holds an Event step
\* whose text is e and has its start-state minterm and its Decision
\* conjuncts satisfied, or (the Moore part) the valuation selects the code
\* of a state that lists e.
C14_EventOutputs ==
    pc = "equations" =>
        \A e \in Range(table.event_outputs) :
            e \in DOMAIN equation.output_eqns =>
                \A val \in Valuations :
                    Sat(equation.output_eqns[e], val)
                    <=> \/ \E p \in 1..Len(paths) :
                              /\ \E k \in 1..Len(paths[p]) :
                                    /\ paths[p][k].type = "event"
                                    /\ paths[p][k].data = <<e>>
                              /\ SelectsCode(val, state_codes[paths[p][1].id])
                              /\ SatisfiesDecisions(val, paths[p])
                        \/ \E s \in DOMAIN table.state_outputs :
                              /\ e \in Range(table.state_outputs[s])
                              /\ SelectsCode(val, state_codes[s])

\* C14, its case: a walk from a State through a Decision on an input and
\* then an Event to a State, whose output equation holds exactly in that
\* state with the input true.
C14_Witness ==
    /\ pc = "equations"
    /\ \E p \in 1..Len(paths) :
          /\ Len(paths[p]) = 4
          /\ paths[p][2].type = "decision" /\ paths[p][2].data # <<>>
          /\ paths[p][3].type = "event" /\ paths[p][3].data # <<>>
          /\ paths[p][3].indicator = "True"
          /\ paths[p][3].data[1] \in DOMAIN equation.output_eqns
          /\ equation.output_eqns[paths[p][3].data[1]]
                = {Minterm(state_codes[paths[p][1].id])
                       \cup {<<paths[p][2].data[1], TRUE>>}}

\* C15: each map simplify_equations returns has exactly the keys of its
\* input map; the expression of every key has the truth table of the input
\* expression, false and true map to themselves, and a key whose
\* minimization raised keeps the original expression while the other keys
\* are still processed.
C15_SimplifyEquivalent ==
    pc = "simplified" =>
        /\ DOMAIN simplified.state = DOMAIN equation.next_state_eqns
        /\ DOMAIN simplified.output = DOMAIN equation.output_eqns
        /\ \A k \in DOMAIN simplified.state :
              /\ \A val \in Valuations :
                    Sat(simplified.state[k], val) = Sat(equation.next_state_eqns[k], val)
              /\ equation.next_state_eqns[k] \in {false, true}
                    => simplified.state[k] = equation.next_state_eqns[k]
              /\ <<"state", k>> \in simplified.failed
                    => simplified.state[k] = equation.next_state_eqns[k]
        /\ \A k \in DOMAIN simplified.output :
              /\ \A val \in Valuations :
                    Sat(simplified.output[k], val) = Sat(equation.output_eqns[k], val)
              /\ equation.output_eqns[k] \in {false, true}
                    => simplified.output[k] = equation.output_eqns[k]
              /\ <<"output", k>> \in simplified.failed
                    => simplified.output[k] = equation.output_eqns[k]

\* C15, its case: one expression made smaller by the minimization while
\* the minimization of another raised and its original expression is kept.
C15_Witness ==
    /\ pc = "simplified"
    /\ \E k \in DOMAIN simplified.state :
          /\ simplified.state[k] # equation.next_state_eqns[k]
          /\ <<"state", k>> \notin simplified.failed
    /\ \E k \in DOMAIN simplified.output :
          /\ <<"output", k>> \in simplified.failed
          /\ simplified.output[k] = equation.output_eqns[k]

\* C16: over a non-empty node table the list of annotated paths has as
\* many entries as the list of id-paths, and the annotated path at each
\* position has the length of the id-path and at its k-th step the id of
\* the k-th node of the id-path.
C16_AnnotationAligned ==
    (pc = "annotated" /\ filtered # <<>>) =>
        /\ Len(paths) = Len(link_path)
        /\ \A p \in 1..Len(paths) :
              /\ Len(paths[p]) = Len(link_path[p])
              /\ \A k \in 1..Len(paths[p]) :
                    /\ paths[p][k] # NoneStep
                    /\ Str(paths[p][k].id) = link_path[p][k]

\* C16, its case: two id-paths, one of which returns to the state it
\* starts at.
C16_Witness ==
    /\ pc = "annotated"
    /\ Len(paths) >= 2
    /\ \E p \in 1..Len(paths) :
          Len(paths[p]) >= 3 /\ paths[p][1].id = paths[p][Len(paths[p])].id

\* The number of connections from one node to another, over all ports.
ConnCount(a, b) ==
    LET conns == ConnectionsInOrder(NodesMap(filtered)[a])
    IN  Cardinality({k \in 1..Len(conns) : conns[k].node = b})

\* The walks of k nodes that start at a State and go on through pairwise
\* distinct nodes that are not States, each joined to the one before it.
RECURSIVE OpenWalks(_)
OpenWalks(k) ==
    IF k = 1
    THEN {<<s>> : s \in {i \in DOMAIN NodesMap(filtered) : TypeOf(i) = "state"}}
    ELSE UNION {{w \o <<m>> :
                    m \in {i \in DOMAIN NodesMap(filtered) :
                             /\ TypeOf(i) # "state"
                             /\ ConnCount(w[Len(w)], i) > 0
                             /\ i \notin Range(w)}} :
                w \in OpenWalks(k - 1)}

AllOpenWalks ==
    UNION {OpenWalks(k) : k \in 1..Cardinality(DOMAIN NodesMap(filtered))}

\* The walks from a State to a State of the graph.
Walks ==
    UNION {{w \o <<t>> :
               t \in {i \in DOMAIN NodesMap(filtered) :
                        TypeOf(i) = "state" /\ ConnCount(w[Len(w)], i) > 0}} :
           w \in AllOpenWalks}

\* The number of choices of connections along a walk.
RECURSIVE Choices(_)
Choices(w) ==
    IF Len(w) < 2 THEN 1
    ELSE ConnCount(w[1], w[2]) * Choices(Tail(w))

\* C17: find_link_paths emits every walk from a State through pairwise
\* distinct non-State nodes to a State, once per choice of connections
\* along it; in a diamond the walks through both branches are emitted.
C17_EnumeratorComplete ==
    pc = "found" =>
        \A w \in Walks :
            Cardinality({p \in 1..Len(link_path) : link_path[p] = w}) = Choices(w)

\* C17, its case: a diamond, two branches from a seed that rejoin at a
\* non-State node, one of them through another non-State node.
C17_Witness ==
    /\ pc = "found"
    /\ \E s, a, b, t \in DOMAIN NodesMap(filtered) :
          /\ a # b
          /\ TypeOf(a) # "state" /\ TypeOf(b) # "state"
          /\ <<s, a, b, t>> \in Range(link_path)
          /\ <<s, b, t>> \in Range(link_path)

\* The places of the connections from one node to another: the rank of the
\* port in the lexical order of the port names and the index in the port.
Places(a, b) ==
    LET outputs == NodesMap(filtered)[a].outputs
    IN  {<<IF outputs[p].port = "output_1" THEN 1 ELSE 2, k>> :
            <<p, k>> \in {pk \in (1..Len(outputs)) \X (1..2) :
                            /\ pk[2] <= Len(outputs[pk[1]].connections)
                            /\ outputs[pk[1]].connections[pk[2]].node = b}}

\* The position of a seed in the node table.
SeedPosition(id) ==
    CHOOSE i \in 1..Len(filtered) :
        Str(filtered[i].id) = id /\ filtered[i].type = "state"

\* C18: the paths of an earlier seed precede those of a later seed, and of
\* two paths of one seed the earlier one leaves their last common node by
\* a connection that comes first in the lexical order of the port names
\* and, within a port, in the order of the connection indices, whatever
\* the order in which the document lists the ports.
C18_EmissionOrder ==
    pc = "found" =>
        \A p, q \in 1..Len(link_path) :
            (p < q /\ link_path[p] # link_path[q]) =>
                LET a == link_path[p]
                    b == link_path[q]
                IN  IF a[1] # b[1]
                    THEN SeedPosition(a[1]) < SeedPosition(b[1])
                    ELSE LET k == CHOOSE i \in 2..Len(a) :
                                     /\ i <= Len(b)
                                     /\ a[i] # b[i]
                                     /\ \A j \in 1..i - 1 : a[j] = b[j]
                         IN  \E x \in Places(a[k - 1], a[k]) :
                             \E y \in Places(a[k - 1], b[k]) :
                                 x[1] < y[1] \/ (x[1] = y[1] /\ x[2] < y[2])

\* C19: where a walk of pairwise distinct non-State nodes from a seed ends
\* at a node with a connection back to a node of the walk, no path goes
\* through that connection, and every connection from a node of the walk
\* to a State still gives its path, whose condition is a term of the
\* next-state equations of that State's bits.
C19_CycleCut ==
    pc = "equations" =>
        \A w \in AllOpenWalks :
            (Len(w) >= 2 /\ \E j \in 2..Len(w) : ConnCount(w[Len(w)], w[j]) > 0) =>
                /\ \A p \in 1..Len(link_path) : \A j \in 2..Len(w) :
                      ~ ( /\ Len(link_path[p]) > Len(w)
                          /\ SubSeq(link_path[p], 1, Len(w) + 1) = w \o <<w[j]>> )
                /\ \A i \in 1..Len(w) :
                   \A t \in {u \in DOMAIN NodesMap(filtered) :
                               TypeOf(u) = "state" /\ ConnCount(w[i], u) > 0} :
                      \E p \in 1..Len(link_path) :
                          /\ link_path[p] = SubSeq(w, 1, i) \o <<t>>
                          /\ \A b \in 1..Len(state_codes[NodesMap(filtered)[t].id]) :
                                state_codes[NodesMap(filtered)[t].id][b] = 1 =>
                                    \A val \in Valuations :
                                        ( /\ SelectsCode(val, state_codes[paths[p][1].id])
                                          /\ SatisfiesDecisions(val, paths[p]) )
                                        => Sat(equation.next_state_eqns[YSym(b - 1)], val)

\* C19, its case: a Decision whose first connection goes back to itself
\* or to a node before it on the walk and whose second connection goes to
\* a State with a bit set in its code.
C19_Witness ==
    /\ pc = "equations"
    /\ \E w \in AllOpenWalks :
          /\ Len(w) >= 2
          /\ TypeOf(w[Len(w)]) = "decision"
          /\ LET d == NodesMap(filtered)[w[Len(w)]]
             IN  /\ \E j \in 2..Len(w) :
                       ConnectsTo(PortConnections(d, "output_1"), w[j])
                 /\ \E t \in DOMAIN NodesMap(filtered) :
                       /\ TypeOf(t) = "state"
                       /\ ConnectsTo(PortConnections(d, "output_2"), t)
                       /\ \E b \in 1..Len(state_codes[NodesMap(filtered)[t].id]) :
                             state_codes[NodesMap(filtered)[t].id][b] = 1

\* C20: on every node table, with cycles through Decision and Event nodes
\* and self-loops as well, the search of find_link_paths has ended with the
\* depth of the recursion of _dfs_find_paths never above the number of
\* nodes of the index, and so below the interpreter's limit.
C20_DepthBounded ==
    pc = "found" =>
        /\ find_link_paths_depth(filtered) <= Cardinality(DOMAIN NodesMap(filtered))
        /\ find_link_paths_depth(filtered) < RecursionLimit

\* C20, its case: a search as deep as the table has nodes, ending at a node
\* with a self-loop or a connection back into the walk.
C20_Witness ==
    /\ pc = "found"
    /\ Len(filtered) >= 3
    /\ find_link_paths_depth(filtered) = Len(filtered)
    /\ \E w \in AllOpenWalks :
          /\ Len(w) = Len(filtered)
          /\ \E j \in 2..Len(w) : ConnCount(w[Len(w)], w[j]) > 0

\* ------------------------------------- generate_boolean_equations by itself

\* The steps a caller may hand to generate_boolean_equations in a path: a
\* State with a code (1, 2), a State with no code (4), a Decision on the
\* input x, also under an id a State has, an Event on the output led, and
\* the None placeholder.
StepsGiven(first) ==
    LET ind == IF first THEN {"None"} ELSE {"True", "False"}
    IN  {[id |-> i, data |-> <<>>, type |-> "state", indicator |-> d] :
            i \in {1, 2, 4}, d \in ind}
        \cup {[id |-> i, data |-> <<"x">>, type |-> "decision", indicator |-> d] :
            i \in {2, 5}, d \in ind}
        \cup {[id |-> 6, data |-> <<"led">>, type |-> "event", indicator |-> d] :
            d \in ind}
        \cup {NoneStep}

\* The paths of at most MaxGivenSteps steps.
PathsGiven ==
    UNION {{<<>>} \cup
           {q \in [1..n -> StepsGiven(TRUE) \cup StepsGiven(FALSE)] :
               /\ q[1] \in StepsGiven(TRUE)
               /\ \A k \in 2..n : q[k] \in StepsGiven(FALSE)} :
           n \in 1..MaxGivenSteps}

\* The arguments of a call of generate_boolean_equations: a list of one
\* path, or of one path and a walk from a State straight to a State, the codes of the states 1 and 2, the input x, the event output
\* led, and the Moore outputs of state 1.
InitEquations ==
    /\ doc = None /\ filtered = None /\ link_path = None
    /\ equation = None /\ simplified = None /\ vhdl_code = None /\ exception = None
    /\ pc = "coded"
    /\ state_codes = assign_state_codes(<<1, 2>>)
    /\ \E moore \in {<<>>, <<"m">>, <<"led">>} :
          table = [arity |-> 4, states |-> <<1, 2>>, inputs |-> <<"x">>,
                   event_outputs |-> <<"led">>,
                   state_outputs |-> [s \in (IF moore = <<>> THEN {} ELSE {1}) |-> moore]]
    /\ \E p1 \in PathsGiven :
          \/ paths = <<p1>>
          \/ \E p2 \in {q \in PathsGiven : Len(q) = 2 /\ q[1].type = "state"
                                            /\ q[2].type = "state"} :
                paths = <<p1, p2>>

NextEquations ==
    \/ GenerateEquations
    \/ Simplify

SpecEquations == InitEquations /\ [][NextEquations]_vars

\* A path the loop of generate_boolean_equations skips: empty, starting
\* with a None placeholder, with a start or end state that has no code, or
\* not ending at a State node.
C21_Skips(path) ==
    \/ Len(path) = 0
    \/ path[1].type = "None"
    \/ path[1].id \notin DOMAIN state_codes
    \/ path[Len(path)].type # "state"
    \/ path[Len(path)].id \notin DOMAIN state_codes

\* The paths of the list that are not skipped, in their order.
C21_Kept == SelectSeq(paths, LAMBDA p : ~C21_Skips(p))

\* C21: a skipped path leaves both equation maps as they are: the maps are
\* those the function builds from the list without its skipped paths, and,
\* with every path skipped, every next-state equation is false and an
\* output equation holds only where the register selects a state that
\* lists the output.
C21_SkippedPathsNoTerm ==
    pc = "equations" =>
        IF C21_Kept # <<>>
        THEN equation = generate_boolean_equations(C21_Kept, state_codes,
                            table.inputs, table.event_outputs, table.state_outputs)
        ELSE /\ \A y \in DOMAIN equation.next_state_eqns :
                    equation.next_state_eqns[y] = false
             /\ \A o \in DOMAIN equation.output_eqns :
                \A val \in Valuations :
                    Sat(equation.output_eqns[o], val) =>
                        \E s \in DOMAIN table.state_outputs :
                            /\ o \in Range(table.state_outputs[s])
                            /\ SelectsCode(val, state_codes[s])

\* C21, its case: a list of a path that is used and a path that starts at
\* a State with a code, holds an Event step on an output with an equation
\* and does not end at a State, with that output's equation left at false.
C21_Witness ==
    /\ pc = "equations"
    /\ Len(paths) = 2
    /\ ~C21_Skips(paths[2])
    /\ Len(paths[1]) = 3
    /\ paths[1][1].id \in DOMAIN state_codes /\ paths[1][1].type = "state"
    /\ paths[1][2].type = "event"
    /\ paths[1][3].type = "decision"
    /\ paths[1][3].id \in DOMAIN state_codes
    /\ "led" \in DOMAIN equation.output_eqns
    /\ equation.output_eqns["led"] = false

\* C22: whenever the equations are built, the state-bit symbols, the input
\* symbols and the output symbols are pairwise disjoint (a Decision or an
\* output named Y0, Y1, ... included), and no input conjunct of a path
\* condition is a literal of a state-bit symbol.
C22_SymbolDomainsDisjoint ==
    (pc = "equations" /\ DOMAIN equation.next_state_eqns # {}) =>
        LET state_bits == DOMAIN equation.next_state_eqns
            inputs_sym == Range(table.inputs)
            outputs_sym == DOMAIN equation.output_eqns
        IN  /\ state_bits \cap inputs_sym = {}
            /\ state_bits \cap outputs_sym = {}
            /\ inputs_sym \cap outputs_sym = {}
            /\ \A p \in 1..Len(paths) :
               \A l \in InputConjuncts(paths[p], table.inputs) :
                   l[1] \notin state_bits

\* The machine the emitted architecture describes. A register value is the
\* set of the indices i at which current_state(i) is '1'; an input
\* valuation is the set of the input ports that are '1'.

\* The register value that is a code: current_state(i) holds the character
\* at string index i.
RegOf(code) == {i - 1 : i \in {k \in 1..Len(code) : code[k] = 1}}

\* The value of the right-hand side of an emitted assignment.
EvalVhdl(rhs, reg, inp) ==
    IF rhs.text = "'1'" THEN TRUE
    ELSE IF rhs.text = "or"
    THEN \E t \in rhs.terms : \A l \in t :
            (IF l.signal = "current_state" THEN l.index \in reg ELSE l.signal \in inp)
                = l.positive
    ELSE FALSE

\* next_state under a register value and an input valuation, which the
\* register takes at the rising edge of clk.
ClockEdge(reg, inp) ==
    {i \in DOMAIN vhdl_code.next_state : EvalVhdl(vhdl_code.next_state[i], reg, inp)}

\* The register values the machine can hold: the reset value and the
\* values clock edges lead to from it, under every input valuation.
RECURSIVE Reachable(_)
Reachable(R) ==
    LET more == R \cup {ClockEdge(r, inp) : r \in R, inp \in SUBSET Range(table.inputs)}
    IN  IF more = R THEN R ELSE Reachable(more)

\* The symbols that are true in the machine: the state bits of the
\* register, and the inputs that are not named as a state bit.
SymbolsTrue(reg, inp) ==
    {YSym(i) : i \in reg} \cup (inp \ YSyms(vhdl_code.num_bits))

\* Whether the path at position p has its path condition satisfied: the
\* register holds the code of its start state and its Decision conjuncts
\* hold.
PathSatisfied(p, reg, inp) ==
    /\ reg = RegOf(state_codes[paths[p][1].id])
    /\ SatisfiesDecisions(SymbolsTrue(reg, inp), paths[p])

\* Whether at most one enumerated path is satisfied in every assigned state
\* under every input valuation.
AtMostOnePath ==
    \A s \in DOMAIN state_codes : \A inp \in SUBSET Range(table.inputs) :
        Cardinality({p \in 1..Len(paths) :
            PathSatisfied(p, RegOf(state_codes[s]), inp)}) <= 1

\* C23: in the emitted machine, if at most one path is satisfied in every
\* state under every input valuation, then every register value reachable
\* from reset by clock edges is the code of a state, and a clock edge taken
\* while a path is satisfied loads the code of that path's end state.
C23_RegisterHoldsAssignedCode ==
    (pc = "done" /\ vhdl_code.kind = "vhdl" /\ AtMostOnePath) =>
        LET reach == Reachable({RegOf(vhdl_code.reset_state_code)})
        IN  /\ \A r \in reach : \E s \in DOMAIN state_codes : r = RegOf(state_codes[s])
            /\ \A r \in reach : \A inp \in SUBSET Range(table.inputs) :
               \A p \in 1..Len(paths) :
                   PathSatisfied(p, r, inp) =>
                       ClockEdge(r, inp)
                           = RegOf(state_codes[paths[p][Len(paths[p])].id])

\* C23, its case: a machine of three states, all reached from reset, with
\* a walk through a Decision whose two branches lead to different states.
C23_Witness ==
    /\ pc = "done" /\ vhdl_code.kind = "vhdl" /\ AtMostOnePath
    /\ Cardinality(Reachable({RegOf(vhdl_code.reset_state_code)})) = 3
    /\ \E p, q \in 1..Len(paths) :
          /\ paths[p][1] = paths[q][1]
          /\ Len(paths[p]) = 3 /\ Len(paths[q]) = 3
          /\ paths[p][2].type = "decision" /\ paths[p][2].id = paths[q][2].id
          /\ paths[p][3].indicator = "True" /\ paths[q][3].indicator = "False"
          /\ paths[p][3].id # paths[q][3].id

\* C24: in the emitted machine, when the register holds the code of a
\* state and no enumerated path is satisfied under the inputs, every
\* next-state equation is false, before and after minimization, and the
\* clock edge loads the all-zero code, which is the code of the State with
\* the smallest id.
C24_NoPathGoesToZero ==
    (pc = "done" /\ vhdl_code.kind = "vhdl") =>
        \A s \in DOMAIN state_codes : \A inp \in SUBSET Range(table.inputs) :
            LET reg == RegOf(state_codes[s])
            IN  (\A p \in 1..Len(paths) : ~PathSatisfied(p, reg, inp)) =>
                    /\ \A y \in DOMAIN equation.next_state_eqns :
                          /\ ~Sat(equation.next_state_eqns[y], SymbolsTrue(reg, inp))
                          /\ ~Sat(simplified.state[y], SymbolsTrue(reg, inp))
                    /\ ClockEdge(reg, inp) = {}
                    /\ \E z \in DOMAIN state_codes :
                          /\ \A t \in DOMAIN state_codes : z <= t
                          /\ RegOf(state_codes[z]) = {}

\* C24, its case: a State that is not the one with the smallest id and has
\* no outgoing walk, in a machine with a walk into it: the clock edge
\* after it is entered loads the all-zero code instead of holding.
C24_Witness ==
    /\ pc = "done" /\ vhdl_code.kind = "vhdl"
    /\ \E s \in DOMAIN state_codes :
          /\ RegOf(state_codes[s]) # {}
          /\ \A p \in 1..Len(paths) : paths[p][1].id # s
          /\ \E p \in 1..Len(paths) : paths[p][Len(paths[p])].id = s
          /\ ClockEdge(RegOf(state_codes[s]), {}) = {}

\* C25: under a valuation whose state bits are not the code of any state,
\* every next-state equation and every output equation is false, before
\* and after minimization, whatever the inputs are.
C25_UnassignedCodesFalse ==
    (pc = "simplified" /\ DOMAIN state_codes # {}) =>
        \A val \in Valuations :
            (\A s \in DOMAIN state_codes : ~SelectsCode(val, state_codes[s])) =>
                /\ \A y \in DOMAIN equation.next_state_eqns :
                      /\ ~Sat(equation.next_state_eqns[y], val)
                      /\ ~Sat(simplified.state[y], val)
                /\ \A o \in DOMAIN equation.output_eqns :
                      /\ ~Sat(equation.output_eqns[o], val)
                      /\ ~Sat(simplified.output[o], val)

\* C25, its case: three states in two bits, so that one code is
\* unassigned, with a next-state equation and an output equation that the
\* minimization made smaller.
C25_Witness ==
    /\ pc = "simplified"
    /\ Cardinality(DOMAIN state_codes) = 3
    /\ \E y \in DOMAIN simplified.state :
          /\ simplified.state[y] # equation.next_state_eqns[y]
          /\ simplified.state[y] # false
    /\ \E o \in DOMAIN simplified.output :
          /\ simplified.output[o] # equation.output_eqns[o]
          /\ simplified.output[o] # false

=============================================================================
